---- MODULE Spec2Model ----
(***************************************************************************)
(* Lifecycle of a netplay session: src/src/netplay/netplay_state.rs.       *)
(* The lifecycle value is NetplayState, a tagged union over                *)
(* Netplay<Disconnected | ConnectingState | Connected | Resuming | Failed>.*)
(* ConnectingState and NetplaySession live outside netplay_state.rs; they  *)
(* are modelled from the collaborator contract (three observable shapes of *)
(* an attempt, a one-step advance of the session that succeeds or faults). *)
(* Option<T> is a sequence of length 0 (None) or 1 (Some); strings that    *)
(* are formatted by the code are sequences of characters.                  *)
(***************************************************************************)
EXTENDS Integers, Sequences, FiniteSets, TLC

VARIABLES
    netplay_state,  \* the lifecycle value owned by the host
    slot,           \* the caller's `&mut Option<String>` handed to new()
    next_id,        \* identity of the next Connection Attempt to be started
    dropped,        \* identities of attempts/sessions whose owner dropped them
    created,        \* the shared context fields as fixed by the last new()
    prev,           \* the lifecycle value the last operation consumed
    op              \* the last operation: name, arguments, collaborator calls

vars == <<netplay_state, slot, next_id, dropped, created, prev, op>>

\* ---------------------------------------------------------------- bounds
MaxAttempts == 4
MaxFrame == 2
HashLen == 1

\* ------------------------------------------------------------ input sets
None == <<>>
Some(x) == <<x>>

NetplayIds == {<<"u", "1">>, <<"u", "2">>}
HashBytes == {10, 171}
\* Digests of HashLen bytes that differ in their first byte.
RomHashes == {[i \in 1..HashLen |-> IF i = 1 THEN b ELSE 10] : b \in HashBytes}
Configs == {"cfg"}
InitialStates == {[frame |-> 0], [frame |-> 1]}
RoomNames == {<<"a">>, <<"b", "_">>}
Reasons == {"timeout", "refused"}
\* [JoypadInput; MAX_PLAYERS]: one pad state per player, two players.
Inputs == {<<0, 0>>, <<1, 0>>}

\* What the collaborators report when polled.
AttemptOutcomes == {"pending", "connect"} \cup Reasons
SyncOutcomes == {"ok", "confirm", "fault"}

\* ------------------------------------------------------- string formatting
HexDigits == <<"0", "1", "2", "3", "4", "5", "6", "7",
               "8", "9", "a", "b", "c", "d", "e", "f">>

\* One byte as `{:02x}`.
HexByte(b) == <<HexDigits[(b \div 16) + 1], HexDigits[(b % 16) + 1]>>

RECURSIVE LowerHex(_)
\* format!("{:x}", digest)
LowerHex(digest) ==
    IF digest = <<>> THEN <<>>
    ELSE HexByte(Head(digest)) \o LowerHex(Tail(digest))

\* Rust arrays are indexed from 0.
At(arr, i) == arr[i + 1]

\* ----------------------------------------------------- start methods
StartState(input_mapping, game_state, session_id) ==
    [input_mapping |-> input_mapping, game_state |-> game_state,
     session_id |-> session_id]

Join(start_state, room_name) ==
    [method |-> "Join", start_state |-> start_state, room_name |-> room_name]

MatchWithRandom(start_state) ==
    [method |-> "MatchWithRandom", start_state |-> start_state]

Resume(start_state) ==
    [method |-> "Resume", start_state |-> start_state]

\* ----------------------------------------------------- collaborators
\* A fresh synchronized session seeded from a start state.
NetplaySession(start_state, id) ==
    [input_mapping |-> start_state.input_mapping,
     last_confirmed_game_states |-> <<start_state.game_state, start_state.game_state>>,
     id |-> id]

\* ConnectingState::connect: a new attempt, in progress, never blocking.
ConnectingState_connect(netplay, start_method, id) ==
    [cs |-> "InProgress", id |-> id, start_method |-> start_method]

\* ConnectingState::advance: one poll of the attempt; `outcome` is what the
\* transport reports.  Connected and Failed attempts stay as they are.
ConnectingState_advance(attempt, outcome) ==
    IF attempt.cs # "InProgress" THEN attempt
    ELSE IF outcome = "pending" THEN attempt
    ELSE IF outcome = "connect" THEN
        [cs |-> "Connected", id |-> attempt.id,
         connected |-> [state |-> NetplaySession(attempt.start_method.start_state, attempt.id),
                        start_method |-> attempt.start_method]]
    ELSE [cs |-> "Failed", id |-> attempt.id, reason |-> outcome]

\* NetplaySession::advance: Ok leaves the session usable (and may confirm a
\* new snapshot, shifting the window); a fault leaves the session as it was.
NetplaySession_advance(session, inputs, input_mapping, outcome) ==
    IF outcome = "confirm" THEN
        [ok |-> TRUE,
         session |-> [session EXCEPT !.last_confirmed_game_states =
             <<At(@, 1), [frame |-> At(@, 1).frame + 1]>>]]
    ELSE [ok |-> outcome = "ok", session |-> session]

\* ----------------------------------------------------- Netplay<S>
Netplay(rt, config, netplay_id, rom_hash, initial_game_state, state) ==
    [rt |-> rt, config |-> config, netplay_id |-> netplay_id,
     rom_hash |-> rom_hash, initial_game_state |-> initial_game_state,
     state |-> state]

\* from() that re-seeds the initial snapshot instead of copying it.
from_reseed(state, other) ==
    Netplay(other.rt, other.config, other.netplay_id, other.rom_hash,
            [frame |-> 0], state)

from(state, other) ==
    Netplay(other.rt, other.config, other.netplay_id, other.rom_hash,
            other.initial_game_state, state)

NetplayState(variant, netplay) == [variant |-> variant, netplay |-> netplay]

Disconnected == <<>>

Connected(netplay_session, session_id) ==
    [netplay_session |-> netplay_session, session_id |-> session_id]

Failed(reason) == [reason |-> reason]

\* What one operation returns, with the collaborator calls it made:
\* attempts polled (in order, as they are after the poll), calls of the
\* synchronization step (inputs and whether it succeeded), identities of the
\* attempts started (in order).
Ret(value, advanced, sync, started) ==
    [value |-> value, advanced |-> advanced, sync |-> sync, started |-> started]

\* ----------------------------------------------------- Resuming
\* Resuming::new whose fallback attempt derives its session id from the
\* content hash instead of reusing the session's.
Resuming_new_rederive(netplay, id) ==
    LET netplay_session == netplay.state.netplay_session
        input_mapping == netplay_session.input_mapping
        session_id == netplay.state.session_id
    IN  [attempt1 |-> ConnectingState_connect(netplay,
            Resume(StartState(input_mapping,
                At(netplay_session.last_confirmed_game_states, 1), session_id)), id),
         attempt2 |-> ConnectingState_connect(netplay,
            Resume(StartState(input_mapping,
                At(netplay_session.last_confirmed_game_states, 0),
                LowerHex(netplay.rom_hash))), id + 1)]

\* Resuming::new with the two window indices exchanged.
Resuming_new_swapped(netplay, id) ==
    LET netplay_session == netplay.state.netplay_session
        input_mapping == netplay_session.input_mapping
        session_id == netplay.state.session_id
    IN  [attempt1 |-> ConnectingState_connect(netplay,
            Resume(StartState(input_mapping,
                At(netplay_session.last_confirmed_game_states, 0), session_id)), id),
         attempt2 |-> ConnectingState_connect(netplay,
            Resume(StartState(input_mapping,
                At(netplay_session.last_confirmed_game_states, 1), session_id)), id + 1)]

\* Resuming::new: two attempts, both Resume, same mapping and session id;
\* attempt1 from window index 1, attempt2 from window index 0.
Resuming_new(netplay, id) ==
    LET netplay_session == netplay.state.netplay_session
        input_mapping == netplay_session.input_mapping
        session_id == netplay.state.session_id
    IN  [attempt1 |-> ConnectingState_connect(netplay,
            Resume(StartState(input_mapping,
                At(netplay_session.last_confirmed_game_states, 1), session_id)), id),
         attempt2 |-> ConnectingState_connect(netplay,
            Resume(StartState(input_mapping,
                At(netplay_session.last_confirmed_game_states, 0), session_id)), id + 1)]

\* ----------------------------------------------------- Netplay<Disconnected>
\* new() that reads the caller's slot without filling it.
Disconnected_new_no_write_back(config, netplay_id, rom_hash, initial_game_state, uuid) ==
    LET filled == IF netplay_id = None THEN Some(uuid) ELSE netplay_id
    IN  [netplay |-> Netplay("netplay-pool", config, filled[1], rom_hash,
                             initial_game_state, Disconnected),
         slot |-> netplay_id]

\* Netplay::<Disconnected>::new; `uuid` is what Uuid::new_v4() would return.
\* Returns the value and the caller's slot after get_or_insert_with.
Disconnected_new(config, netplay_id, rom_hash, initial_game_state, uuid) ==
    LET filled == IF netplay_id = None THEN Some(uuid) ELSE netplay_id
    IN  [netplay |-> Netplay("netplay-pool", config, filled[1], rom_hash,
                             initial_game_state, Disconnected),
         slot |-> filled]

Disconnected_join(self, start_method, id) ==
    Ret(NetplayState("Connecting",
            from(ConnectingState_connect(self, start_method, id), self)),
        <<>>, <<>>, <<id>>)

\* join_by_name that derives the session id from the content hash alone.
Disconnected_join_by_name_hash_only(self, room_name, id) ==
    LET initial_state == self.initial_game_state
        session_id == LowerHex(self.rom_hash)
    IN  Disconnected_join(self,
            Join(StartState(None, initial_state, session_id), room_name), id)

Disconnected_join_by_name(self, room_name, id) ==
    LET initial_state == self.initial_game_state
        session_id == room_name \o <<"_">> \o LowerHex(self.rom_hash)
    IN  Disconnected_join(self,
            Join(StartState(None, initial_state, session_id), room_name), id)

\* match_with_random that makes the session id unique per netplay id.
Disconnected_match_with_random_per_id(self, id) ==
    LET initial_state == self.initial_game_state
        session_id == self.netplay_id \o <<"_">> \o LowerHex(self.rom_hash)
    IN  Disconnected_join(self,
            MatchWithRandom(StartState(None, initial_state, session_id)), id)

Disconnected_match_with_random(self, id) ==
    LET initial_state == self.initial_game_state
        session_id == LowerHex(self.rom_hash)
    IN  Disconnected_join(self,
            MatchWithRandom(StartState(None, initial_state, session_id)), id)

\* ----------------------------------------------------- Netplay<ConnectingState>
\* cancel that is ignored once the attempt has connected.
Connecting_cancel_unless_connected(self) ==
    IF self.state.cs = "Connected"
    THEN Ret(NetplayState("Connecting", self), <<>>, <<>>, <<>>)
    ELSE Ret(NetplayState("Disconnected", from(Disconnected, self)), <<>>, <<>>, <<>>)

Connecting_cancel(self) ==
    Ret(NetplayState("Disconnected", from(Disconnected, self)), <<>>, <<>>, <<>>)

\* Connecting advance that derives the session id from the content hash
\* instead of taking it from the start method, and reports a fixed reason.
Connecting_advance_rederive(self, outcome) ==
    LET state == ConnectingState_advance(self.state, outcome)
        value ==
            IF state.cs = "Connected" THEN
                NetplayState("Connected",
                    Netplay(self.rt, self.config, self.netplay_id, self.rom_hash,
                            self.initial_game_state,
                            Connected(state.connected.state, LowerHex(self.rom_hash))))
            ELSE IF state.cs = "Failed" THEN
                NetplayState("Failed",
                    Netplay(self.rt, self.config, self.netplay_id, self.rom_hash,
                            self.initial_game_state, Failed("timeout")))
            ELSE NetplayState("Connecting", [self EXCEPT !.state = state])
    IN  Ret(value, <<state>>, <<>>, <<>>)

\* Connecting advance that goes back to Disconnected when the attempt fails.
Connecting_advance_reset_on_failure(self, outcome) ==
    LET state == ConnectingState_advance(self.state, outcome)
        value ==
            IF state.cs = "Connected" THEN
                NetplayState("Connected",
                    Netplay(self.rt, self.config, self.netplay_id, self.rom_hash,
                            self.initial_game_state,
                            Connected(state.connected.state,
                                      state.connected.start_method.start_state.session_id)))
            ELSE IF state.cs = "Failed" THEN
                NetplayState("Disconnected", from(Disconnected, self))
            ELSE NetplayState("Connecting", [self EXCEPT !.state = state])
    IN  Ret(value, <<state>>, <<>>, <<>>)

\* Connecting advance that only takes over a session it saw connect itself:
\* an attempt that arrives already connected is kept waiting.
Connecting_advance_needs_transition(self, outcome) ==
    LET state == ConnectingState_advance(self.state, outcome)
        value ==
            IF state.cs = "Connected" /\ self.state.cs # "Connected" THEN
                NetplayState("Connected",
                    Netplay(self.rt, self.config, self.netplay_id, self.rom_hash,
                            self.initial_game_state,
                            Connected(state.connected.state,
                                      state.connected.start_method.start_state.session_id)))
            ELSE IF state.cs = "Failed" THEN
                NetplayState("Failed",
                    Netplay(self.rt, self.config, self.netplay_id, self.rom_hash,
                            self.initial_game_state, Failed(state.reason)))
            ELSE NetplayState("Connecting", [self EXCEPT !.state = state])
    IN  Ret(value, <<state>>, <<>>, <<>>)

\* Connecting advance without the Failed arm: a failed attempt falls into
\* the catch-all and the value stays Connecting.
Connecting_advance_swallow_failure(self, outcome) ==
    LET state == ConnectingState_advance(self.state, outcome)
        value ==
            IF state.cs = "Connected" THEN
                NetplayState("Connected",
                    Netplay(self.rt, self.config, self.netplay_id, self.rom_hash,
                            self.initial_game_state,
                            Connected(state.connected.state,
                                      state.connected.start_method.start_state.session_id)))
            ELSE NetplayState("Connecting", [self EXCEPT !.state = state])
    IN  Ret(value, <<state>>, <<>>, <<>>)

\* Connecting advance that hands a failed attempt back as a bare error
\* instead of a Failed lifecycle value.
Connecting_advance_propagate(self, outcome) ==
    LET state == ConnectingState_advance(self.state, outcome)
        value ==
            IF state.cs = "Connected" THEN
                NetplayState("Connected",
                    Netplay(self.rt, self.config, self.netplay_id, self.rom_hash,
                            self.initial_game_state,
                            Connected(state.connected.state,
                                      state.connected.start_method.start_state.session_id)))
            ELSE IF state.cs = "Failed" THEN
                NetplayState("Err", from(Failed(state.reason), self))
            ELSE NetplayState("Connecting", [self EXCEPT !.state = state])
    IN  Ret(value, <<state>>, <<>>, <<>>)

Connecting_advance(self, outcome) ==
    LET state == ConnectingState_advance(self.state, outcome)
        value ==
            IF state.cs = "Connected" THEN
                NetplayState("Connected",
                    Netplay(self.rt, self.config, self.netplay_id, self.rom_hash,
                            self.initial_game_state,
                            Connected(state.connected.state,
                                      state.connected.start_method.start_state.session_id)))
            ELSE IF state.cs = "Failed" THEN
                NetplayState("Failed",
                    Netplay(self.rt, self.config, self.netplay_id, self.rom_hash,
                            self.initial_game_state, Failed(state.reason)))
            ELSE NetplayState("Connecting", [self EXCEPT !.state = state])
    IN  Ret(value, <<state>>, <<>>, <<>>)

\* ----------------------------------------------------- Netplay<Connected>
Connected_resume(self, id) ==
    Ret(NetplayState("Resuming", from(Resuming_new(self, id), self)),
        <<>>, <<>>, <<id, id + 1>>)

\* Connected advance that assigns the default mapping and then still runs
\* the synchronization step in the same call.
Connected_advance_fallthrough(self, inputs, outcome, id) ==
    LET mapped == IF self.state.netplay_session.input_mapping # None THEN self
                  ELSE [self EXCEPT !.state.netplay_session.input_mapping =
                            Some([ids |-> <<0, 1>>])]
        input_mapping == mapped.state.netplay_session.input_mapping[1]
        step == NetplaySession_advance(mapped.state.netplay_session, inputs,
                                       input_mapping, outcome)
        after == [mapped EXCEPT !.state.netplay_session = step.session]
    IN  IF ~step.ok THEN
            [Connected_resume(after, id) EXCEPT
                !.sync = <<[inputs |-> inputs, ok |-> FALSE]>>]
        ELSE Ret(NetplayState("Connected", after), <<>>,
                 <<[inputs |-> inputs, ok |-> TRUE]>>, <<>>)

Connected_advance(self, inputs, outcome, id) ==
    IF self.state.netplay_session.input_mapping # None THEN
        LET input_mapping == self.state.netplay_session.input_mapping[1]
            step == NetplaySession_advance(self.state.netplay_session, inputs,
                                           input_mapping, outcome)
            after == [self EXCEPT !.state.netplay_session = step.session]
        IN  IF ~step.ok THEN
                [Connected_resume(after, id) EXCEPT
                    !.sync = <<[inputs |-> inputs, ok |-> FALSE]>>]
            ELSE Ret(NetplayState("Connected", after), <<>>,
                     <<[inputs |-> inputs, ok |-> TRUE]>>, <<>>)
    ELSE
        Ret(NetplayState("Connected",
                [self EXCEPT !.state.netplay_session.input_mapping =
                    Some([ids |-> <<0, 1>>])]),
            <<>>, <<>>, <<>>)

Connected_disconnect(self) ==
    Ret(NetplayState("Disconnected", from(Disconnected, self)), <<>>, <<>>, <<>>)

\* ----------------------------------------------------- Netplay<Resuming>
\* Resuming advance that gives up with Failed once both attempts have failed.
Resuming_advance_give_up(self, outcome1, outcome2) ==
    LET attempt1 == ConnectingState_advance(self.state.attempt1, outcome1)
        attempt2 == ConnectingState_advance(self.state.attempt2, outcome2)
        value ==
            IF attempt1.cs = "Connected" THEN
                NetplayState("Connecting",
                    Netplay(self.rt, self.config, self.netplay_id, self.rom_hash,
                            self.initial_game_state, attempt1))
            ELSE IF attempt2.cs = "Connected" THEN
                NetplayState("Connecting",
                    Netplay(self.rt, self.config, self.netplay_id, self.rom_hash,
                            self.initial_game_state, attempt2))
            ELSE IF attempt1.cs = "Failed" /\ attempt2.cs = "Failed" THEN
                NetplayState("Failed", from(Failed(attempt1.reason), self))
            ELSE NetplayState("Resuming",
                    [self EXCEPT !.state = [attempt1 |-> attempt1, attempt2 |-> attempt2]])
    IN  Ret(value, <<attempt1, attempt2>>, <<>>, <<>>)

\* Resuming advance that does not poll attempt2 once attempt1 is connected.
Resuming_advance_short_circuit(self, outcome1, outcome2) ==
    LET attempt1 == ConnectingState_advance(self.state.attempt1, outcome1)
        attempt2 == ConnectingState_advance(self.state.attempt2, outcome2)
    IN  IF attempt1.cs = "Connected" THEN
            Ret(NetplayState("Connecting",
                    Netplay(self.rt, self.config, self.netplay_id, self.rom_hash,
                            self.initial_game_state, attempt1)),
                <<attempt1>>, <<>>, <<>>)
        ELSE IF attempt2.cs = "Connected" THEN
            Ret(NetplayState("Connecting",
                    Netplay(self.rt, self.config, self.netplay_id, self.rom_hash,
                            self.initial_game_state, attempt2)),
                <<attempt1, attempt2>>, <<>>, <<>>)
        ELSE Ret(NetplayState("Resuming",
                    [self EXCEPT !.state = [attempt1 |-> attempt1, attempt2 |-> attempt2]]),
                 <<attempt1, attempt2>>, <<>>, <<>>)

\* Resuming advance that looks at attempt2 first.
Resuming_advance_attempt2_first(self, outcome1, outcome2) ==
    LET attempt1 == ConnectingState_advance(self.state.attempt1, outcome1)
        attempt2 == ConnectingState_advance(self.state.attempt2, outcome2)
        value ==
            IF attempt2.cs = "Connected" THEN
                NetplayState("Connecting",
                    Netplay(self.rt, self.config, self.netplay_id, self.rom_hash,
                            self.initial_game_state, attempt2))
            ELSE IF attempt1.cs = "Connected" THEN
                NetplayState("Connecting",
                    Netplay(self.rt, self.config, self.netplay_id, self.rom_hash,
                            self.initial_game_state, attempt1))
            ELSE NetplayState("Resuming",
                    [self EXCEPT !.state = [attempt1 |-> attempt1, attempt2 |-> attempt2]])
    IN  Ret(value, <<attempt1, attempt2>>, <<>>, <<>>)

\* Resuming advance without the attempt2 branch.
Resuming_advance_attempt1_only(self, outcome1, outcome2) ==
    LET attempt1 == ConnectingState_advance(self.state.attempt1, outcome1)
        attempt2 == ConnectingState_advance(self.state.attempt2, outcome2)
        value ==
            IF attempt1.cs = "Connected" THEN
                NetplayState("Connecting",
                    Netplay(self.rt, self.config, self.netplay_id, self.rom_hash,
                            self.initial_game_state, attempt1))
            ELSE NetplayState("Resuming",
                    [self EXCEPT !.state = [attempt1 |-> attempt1, attempt2 |-> attempt2]])
    IN  Ret(value, <<attempt1, attempt2>>, <<>>, <<>>)

Resuming_advance(self, outcome1, outcome2) ==
    LET attempt1 == ConnectingState_advance(self.state.attempt1, outcome1)
        attempt2 == ConnectingState_advance(self.state.attempt2, outcome2)
        value ==
            IF attempt1.cs = "Connected" THEN
                NetplayState("Connecting",
                    Netplay(self.rt, self.config, self.netplay_id, self.rom_hash,
                            self.initial_game_state, attempt1))
            ELSE IF attempt2.cs = "Connected" THEN
                NetplayState("Connecting",
                    Netplay(self.rt, self.config, self.netplay_id, self.rom_hash,
                            self.initial_game_state, attempt2))
            ELSE NetplayState("Resuming",
                    [self EXCEPT !.state = [attempt1 |-> attempt1, attempt2 |-> attempt2]])
    IN  Ret(value, <<attempt1, attempt2>>, <<>>, <<>>)

\* cancel that retags the value but keeps the two attempts.
Resuming_cancel_keep(self) ==
    Ret(NetplayState("Disconnected", self), <<>>, <<>>, <<>>)

Resuming_cancel(self) ==
    Ret(NetplayState("Disconnected", from(Disconnected, self)), <<>>, <<>>, <<>>)

\* ----------------------------------------------------- Netplay<Failed>
Failed_resume(self) ==
    Ret(NetplayState("Disconnected", from(Disconnected, self)), <<>>, <<>>, <<>>)

\* ----------------------------------------------------- NetplayState::advance
\* advance that leaves Failed by itself.
NetplayState_advance_leave_failed(self, inputs, outcome1, outcome2, sync_outcome, id) ==
    CASE self.variant = "Disconnected" -> Ret(self, <<>>, <<>>, <<>>)
      [] self.variant = "Connecting" -> Connecting_advance(self.netplay, outcome1)
      [] self.variant = "Connected" ->
            Connected_advance(self.netplay, inputs, sync_outcome, id)
      [] self.variant = "Resuming" ->
            Resuming_advance(self.netplay, outcome1, outcome2)
      [] self.variant = "Failed" -> Failed_resume(self.netplay)

\* advance that starts a random match when Disconnected.
NetplayState_advance_autojoin(self, inputs, outcome1, outcome2, sync_outcome, id) ==
    CASE self.variant = "Disconnected" ->
            Disconnected_match_with_random(self.netplay, id)
      [] self.variant = "Connecting" -> Connecting_advance(self.netplay, outcome1)
      [] self.variant = "Connected" ->
            Connected_advance(self.netplay, inputs, sync_outcome, id)
      [] self.variant = "Resuming" ->
            Resuming_advance(self.netplay, outcome1, outcome2)
      [] self.variant = "Failed" -> Ret(self, <<>>, <<>>, <<>>)

NetplayState_advance(self, inputs, outcome1, outcome2, sync_outcome, id) ==
    CASE self.variant = "Disconnected" -> Ret(self, <<>>, <<>>, <<>>)
      [] self.variant = "Connecting" -> Connecting_advance(self.netplay, outcome1)
      [] self.variant = "Connected" ->
            Connected_advance(self.netplay, inputs, sync_outcome, id)
      [] self.variant = "Resuming" ->
            Resuming_advance(self.netplay, outcome1, outcome2)
      [] self.variant = "Failed" -> Ret(self, <<>>, <<>>, <<>>)

\* ----------------------------------------------------- ownership bookkeeping
\* Identities of the attempts and sessions a state-specific payload holds.
PayloadIds(state) ==
    (IF "cs" \in DOMAIN state THEN {state.id} ELSE {})
    \cup (IF "netplay_session" \in DOMAIN state THEN {state.netplay_session.id} ELSE {})
    \cup (IF "attempt1" \in DOMAIN state THEN {state.attempt1.id} ELSE {})
    \cup (IF "attempt2" \in DOMAIN state THEN {state.attempt2.id} ELSE {})

OwnedIds(value) == PayloadIds(value.netplay.state)

Range(seq) == {seq[i] : i \in DOMAIN seq}

\* The shared context fields of a Netplay<S>.
Context(netplay) ==
    [rt |-> netplay.rt, config |-> netplay.config, netplay_id |-> netplay.netplay_id,
     rom_hash |-> netplay.rom_hash, initial_game_state |-> netplay.initial_game_state]

\* The resume cycle an operation belongs to: opened when a Connected value
\* goes to Resuming (by a fault in advance or by resume()), carried by the
\* advances that follow while the value is Resuming or Connecting, closed by
\* anything else.  It remembers the session id the cycle started from.
Cycle(name, ret) ==
    IF netplay_state.variant = "Connected" /\ ret.value.variant = "Resuming"
    THEN Some([session_id |-> netplay_state.netplay.state.session_id, cause |-> name])
    ELSE IF name = "advance" /\ netplay_state.variant \in {"Resuming", "Connecting"}
    THEN op.cycle
    ELSE None

Op(name, inputs, room_name, netplay_id, ret) ==
    [name |-> name, after |-> op.name, cycle |-> Cycle(name, ret),
     inputs |-> inputs, room_name |-> room_name,
     netplay_id |-> netplay_id, advanced |-> ret.advanced, sync |-> ret.sync,
     started |-> ret.started]

\* The host replaces its lifecycle value by the operation's result; whatever
\* the result does not hold any more has been dropped.
Apply(name, inputs, room_name, ret) ==
    /\ netplay_state' = ret.value
    /\ prev' = netplay_state
    /\ op' = Op(name, inputs, room_name, None, ret)
    /\ next_id' = next_id + Len(ret.started)
    /\ dropped' = dropped \cup
            ((OwnedIds(netplay_state) \cup Range(ret.started)) \ OwnedIds(ret.value))
    /\ UNCHANGED <<slot, created>>

\* ----------------------------------------------------- specification
Init ==
    \E config \in Configs, netplay_id \in {None} \cup {Some(i) : i \in NetplayIds},
       rom_hash \in RomHashes, initial_game_state \in InitialStates,
       uuid \in NetplayIds :
        LET new == Disconnected_new(config, netplay_id, rom_hash,
                                    initial_game_state, uuid)
        IN  /\ netplay_state = NetplayState("Disconnected", new.netplay)
            /\ slot = new.slot
            /\ next_id = 1
            /\ dropped = {}
            /\ created = Context(new.netplay)
            /\ prev = NetplayState("Disconnected", new.netplay)
            /\ op = [name |-> "new", after |-> "none", cycle |-> None, inputs |-> None,
                     room_name |-> None, netplay_id |-> netplay_id,
                     advanced |-> <<>>, sync |-> <<>>, started |-> <<>>]

\* The host discards its session and constructs a new one with the same slot.
New ==
    \E config \in Configs, rom_hash \in RomHashes,
       initial_game_state \in InitialStates, uuid \in NetplayIds :
        LET new == Disconnected_new(config, slot, rom_hash, initial_game_state, uuid)
        IN  /\ netplay_state' = NetplayState("Disconnected", new.netplay)
            /\ slot' = new.slot
            /\ created' = Context(new.netplay)
            /\ prev' = netplay_state
            /\ op' = Op("new", None, None, slot,
                        Ret(NetplayState("Disconnected", new.netplay), <<>>, <<>>, <<>>))
            /\ dropped' = dropped \cup OwnedIds(netplay_state)
            /\ UNCHANGED next_id

JoinByName ==
    /\ netplay_state.variant = "Disconnected"
    /\ next_id <= MaxAttempts
    /\ \E room_name \in RoomNames :
        Apply("join_by_name", None, Some(room_name),
              Disconnected_join_by_name(netplay_state.netplay, room_name, next_id))

MatchRandom ==
    /\ netplay_state.variant = "Disconnected"
    /\ next_id <= MaxAttempts
    /\ Apply("match_with_random", None, None,
             Disconnected_match_with_random(netplay_state.netplay, next_id))

\* join() called by the host with a start method of its own: resuming a
\* room it knows, with the mapping already agreed.
JoinWith ==
    /\ netplay_state.variant = "Disconnected"
    /\ next_id <= MaxAttempts
    /\ Apply("join", None, None,
             Disconnected_join(netplay_state.netplay,
                Resume(StartState(Some([ids |-> <<0, 1>>]),
                                  netplay_state.netplay.initial_game_state,
                                  <<"s">>)),
                next_id))

CancelConnecting ==
    /\ netplay_state.variant = "Connecting"
    /\ Apply("cancel", None, None, Connecting_cancel(netplay_state.netplay))

CancelResuming ==
    /\ netplay_state.variant = "Resuming"
    /\ Apply("cancel", None, None, Resuming_cancel(netplay_state.netplay))

Disconnect ==
    /\ netplay_state.variant = "Connected"
    /\ Apply("disconnect", None, None, Connected_disconnect(netplay_state.netplay))

ResumeConnected ==
    /\ netplay_state.variant = "Connected"
    /\ next_id + 1 <= MaxAttempts
    /\ Apply("resume", None, None, Connected_resume(netplay_state.netplay, next_id))

ResumeFailed ==
    /\ netplay_state.variant = "Failed"
    /\ Apply("resume", None, None, Failed_resume(netplay_state.netplay))

\* One simulation step of the host loop.  The counters are capped: a fault
\* needs two fresh attempts, a confirmation a frame below MaxFrame.
AdvanceStep(inputs, outcome1, outcome2, sync_outcome) ==
    \* a collaborator reports only when it is polled
    /\ netplay_state.variant \notin {"Connecting", "Resuming"} => outcome1 = "pending"
    /\ netplay_state.variant # "Resuming" => outcome2 = "pending"
    /\ netplay_state.variant # "Connected" => sync_outcome = "ok"
    /\ (netplay_state.variant = "Connected" /\ sync_outcome = "fault")
            => next_id + 1 <= MaxAttempts
    /\ (netplay_state.variant = "Connected" /\ sync_outcome = "confirm")
            => At(netplay_state.netplay.state.netplay_session
                    .last_confirmed_game_states, 1).frame < MaxFrame
    /\ Apply("advance", Some(inputs), None,
             NetplayState_advance(netplay_state, inputs, outcome1, outcome2,
                                  sync_outcome, next_id))

Advance ==
    \E inputs \in Inputs, outcome1 \in AttemptOutcomes,
       outcome2 \in AttemptOutcomes, sync_outcome \in SyncOutcomes :
        AdvanceStep(inputs, outcome1, outcome2, sync_outcome)

\* An advance in which every attempt that is polled reports: it connects or
\* fails instead of staying in progress.
AttemptReports ==
    /\ netplay_state.variant \in {"Connecting", "Resuming"}
    /\ \E inputs \in Inputs, outcome1 \in AttemptOutcomes \ {"pending"},
          outcome2 \in AttemptOutcomes \ {"pending"} :
            AdvanceStep(inputs, outcome1,
                        IF netplay_state.variant = "Resuming" THEN outcome2
                        ELSE "pending", "ok")

Next ==
    \/ New
    \/ JoinByName
    \/ MatchRandom
    \/ JoinWith
    \/ CancelConnecting
    \/ CancelResuming
    \/ Disconnect
    \/ ResumeConnected
    \/ ResumeFailed
    \/ Advance

Spec == Init /\ [][Next]_vars

\* One session, constructed once with a netplay id supplied by the caller.
LiveInit ==
    LET new == Disconnected_new("cfg", Some(<<"u", "1">>),
                                [i \in 1..HashLen |-> IF i = 1 THEN 171 ELSE 10],
                                [frame |-> 0], <<"u", "2">>)
    IN  /\ netplay_state = NetplayState("Disconnected", new.netplay)
        /\ slot = new.slot
        /\ next_id = 1
        /\ dropped = {}
        /\ created = Context(new.netplay)
        /\ prev = NetplayState("Disconnected", new.netplay)
        /\ op = [name |-> "new", after |-> "none", cycle |-> None, inputs |-> None,
                 room_name |-> None, netplay_id |-> Some(<<"u", "1">>),
                 advanced |-> <<>>, sync |-> <<>>, started |-> <<>>]

\* The operations on that one session.
LiveNext ==
    \/ JoinByName
    \/ MatchRandom
    \/ JoinWith
    \/ CancelConnecting
    \/ CancelResuming
    \/ Disconnect
    \/ ResumeConnected
    \/ ResumeFailed
    \/ Advance

\* The host loop calls advance once per simulation step, and an attempt that
\* is polled eventually reports connected or failed.  The user operations
\* are under no obligation to happen.
LiveSpec ==
    LiveInit /\ [][LiveNext]_vars /\ WF_vars(Advance) /\ WF_vars(AttemptReports)

\* ================================================================ claims
\* Shape of a Connection Attempt: in progress, connected-with-session, failed.
IsAttempt(a) ==
    /\ "cs" \in DOMAIN a
    /\ a.cs \in {"InProgress", "Connected", "Failed"}
    /\ a.cs = "InProgress" => DOMAIN a = {"cs", "id", "start_method"}
    /\ a.cs = "Connected" =>
        /\ DOMAIN a = {"cs", "id", "connected"}
        /\ DOMAIN a.connected = {"state", "start_method"}
    /\ a.cs = "Failed" => DOMAIN a = {"cs", "id", "reason"} /\ a.reason \in Reasons

\* C1: after any sequence of operations the lifecycle value is in exactly one
\* of the five states and owns exactly that state's payload: Disconnected
\* nothing, Connecting one attempt, Connected one session and its session id,
\* Resuming two (distinct) attempts, Failed one reason.
C1_ExactlyOnePayload ==
    LET state == netplay_state.netplay.state
    IN  /\ DOMAIN netplay_state = {"variant", "netplay"}
        /\ DOMAIN netplay_state.netplay =
            {"rt", "config", "netplay_id", "rom_hash", "initial_game_state", "state"}
        /\ netplay_state.variant \in
            {"Disconnected", "Connecting", "Connected", "Resuming", "Failed"}
        /\ netplay_state.variant = "Disconnected" => DOMAIN state = {}
        /\ netplay_state.variant = "Connecting" => IsAttempt(state)
        /\ netplay_state.variant = "Connected" =>
            /\ DOMAIN state = {"netplay_session", "session_id"}
            /\ DOMAIN state.netplay_session =
                {"input_mapping", "last_confirmed_game_states", "id"}
            /\ Len(state.netplay_session.last_confirmed_game_states) = 2
        /\ netplay_state.variant = "Resuming" =>
            /\ DOMAIN state = {"attempt1", "attempt2"}
            /\ IsAttempt(state.attempt1)
            /\ IsAttempt(state.attempt2)
            /\ state.attempt1.id # state.attempt2.id
        /\ netplay_state.variant = "Failed" =>
            DOMAIN state = {"reason"} /\ state.reason \in Reasons

\* A cancel has just consumed a Resuming value holding two attempts.
C1_Witness ==
    /\ op.name = "cancel"
    /\ prev.variant = "Resuming"
    /\ netplay_state.variant = "Disconnected"

\* C2: the shared context fields fixed by new() are the same in every
\* lifecycle value reached from it; no advance and no user operation changes
\* them.
C2_ContextUnchanged ==
    /\ Context(netplay_state.netplay) = created
    /\ op.name # "new" => Context(netplay_state.netplay) = Context(prev.netplay)

\* Connected.disconnect().join_by_name(name): a join right after a disconnect.
C2_Witness ==
    /\ op.name = "join_by_name"
    /\ op.after = "disconnect"
    /\ netplay_state.variant = "Connecting"
    /\ created.initial_game_state # [frame |-> 0]

\* C3: from Connected with a mapping, a faulting synchronization step makes
\* the same advance return Resuming; the Resuming payload built by that
\* advance or by resume() has two in-progress Resume attempts carrying the
\* Connected state's mapping and session id, attempt1 from window index 1
\* (the newest snapshot), attempt2 from window index 0.
C3_ResumeStrategy ==
    LET before == prev.netplay.state
        after == netplay_state.netplay.state
        window == before.netplay_session.last_confirmed_game_states
    IN  (prev.variant = "Connected" /\ op.name \in {"advance", "resume"}) =>
        /\ (op.name = "advance" /\ before.netplay_session.input_mapping # None) =>
            /\ Len(op.sync) = 1
            /\ op.sync[1].inputs = op.inputs[1]
            /\ (netplay_state.variant = "Resuming") = ~op.sync[1].ok
        /\ op.name = "resume" => netplay_state.variant = "Resuming"
        /\ netplay_state.variant = "Resuming" =>
            /\ DOMAIN after = {"attempt1", "attempt2"}
            /\ op.started = <<after.attempt1.id, after.attempt2.id>>
            /\ \A a \in {after.attempt1, after.attempt2} :
                /\ a.cs = "InProgress"
                /\ a.start_method.method = "Resume"
                /\ a.start_method.start_state.input_mapping =
                        before.netplay_session.input_mapping
                /\ a.start_method.start_state.session_id = before.session_id
            /\ after.attempt1.start_method.start_state.game_state = window[2]
            /\ after.attempt2.start_method.start_state.game_state = window[1]
            /\ window[2].frame >= window[1].frame

\* A fault in advance has produced Resuming from a window of two different
\* snapshots.
C3_Witness ==
    /\ op.name = "advance"
    /\ prev.variant = "Connected"
    /\ netplay_state.variant = "Resuming"
    /\ op.sync # <<>>
    /\ ~op.sync[1].ok
    /\ prev.netplay.state.netplay_session.last_confirmed_game_states[1] #
        prev.netplay.state.netplay_session.last_confirmed_game_states[2]

\* C4: from Resuming, when attempt1 reports connected after the step (in
\* particular when both do), advance returns Connecting carrying attempt1 and
\* attempt2 is dropped; attempt2 is never selected in such a step.
C4_Attempt1WinsTie ==
    (prev.variant = "Resuming" /\ op.name = "advance"
        /\ Len(op.advanced) = 2 /\ op.advanced[1].cs = "Connected") =>
        /\ netplay_state.variant = "Connecting"
        /\ netplay_state.netplay.state = op.advanced[1]
        /\ netplay_state.netplay.state.id = prev.netplay.state.attempt1.id
        /\ netplay_state.netplay.state.id # prev.netplay.state.attempt2.id
        /\ prev.netplay.state.attempt2.id \in dropped

\* Both attempts reported connected in the same step.
C4_Witness ==
    /\ prev.variant = "Resuming"
    /\ op.name = "advance"
    /\ Len(op.advanced) = 2
    /\ op.advanced[1].cs = "Connected"
    /\ op.advanced[2].cs = "Connected"
    /\ op.advanced[1].connected.state # op.advanced[2].connected.state

\* C5: from Resuming, when after the step attempt2 reports connected and
\* attempt1 does not (in progress or failed), advance returns Connecting
\* carrying attempt2 and attempt1 is dropped; when neither reports connected
\* it returns Resuming still owning both attempts.
C5_Attempt2Fallback ==
    (prev.variant = "Resuming" /\ op.name = "advance" /\ Len(op.advanced) = 2) =>
        /\ (op.advanced[1].cs # "Connected" /\ op.advanced[2].cs = "Connected") =>
            /\ netplay_state.variant = "Connecting"
            /\ netplay_state.netplay.state = op.advanced[2]
            /\ netplay_state.netplay.state.id = prev.netplay.state.attempt2.id
            /\ prev.netplay.state.attempt1.id \in dropped
        /\ (op.advanced[1].cs # "Connected" /\ op.advanced[2].cs # "Connected") =>
            /\ netplay_state.variant = "Resuming"
            /\ netplay_state.netplay.state =
                [attempt1 |-> op.advanced[1], attempt2 |-> op.advanced[2]]
            /\ netplay_state.netplay.state.attempt1.id = prev.netplay.state.attempt1.id
            /\ netplay_state.netplay.state.attempt2.id = prev.netplay.state.attempt2.id
            /\ dropped \cap {op.advanced[1].id, op.advanced[2].id} = {}

\* attempt2 reported connected in a step after which attempt1 has failed.
C5_Witness ==
    /\ prev.variant = "Resuming"
    /\ op.name = "advance"
    /\ Len(op.advanced) = 2
    /\ op.advanced[1].cs = "Failed"
    /\ op.advanced[2].cs = "Connected"
    /\ netplay_state.variant = "Connecting"

\* C6: Connecting.advance polls the owned attempt once; if the attempt then
\* reports connected the result is Connected owning the attempt's session,
\* with the session id of the start method that produced the attempt; if it
\* reports failed with reason r the result is Failed with reason r; otherwise
\* the result is Connecting owning the same attempt.
C6_ConnectingAdvance ==
    (prev.variant = "Connecting" /\ op.name = "advance") =>
        LET before == prev.netplay.state
            start_method == IF before.cs = "InProgress" THEN before.start_method
                            ELSE before.connected.start_method
            after == netplay_state.netplay.state
        IN  /\ Len(op.advanced) = 1
            /\ op.advanced[1].id = before.id
            /\ op.advanced[1].cs = "Connected" =>
                /\ netplay_state.variant = "Connected"
                /\ DOMAIN after = {"netplay_session", "session_id"}
                /\ after.netplay_session = op.advanced[1].connected.state
                /\ after.netplay_session.id = before.id
                /\ op.advanced[1].connected.start_method = start_method
                /\ start_method.method \in {"Join", "MatchWithRandom", "Resume"}
                /\ after.session_id = start_method.start_state.session_id
            /\ op.advanced[1].cs = "Failed" =>
                /\ netplay_state.variant = "Failed"
                /\ after = [reason |-> op.advanced[1].reason]
            /\ op.advanced[1].cs = "InProgress" =>
                /\ netplay_state.variant = "Connecting"
                /\ after = before

\* An attempt started by join_by_name has connected during this advance.
C6_Witness ==
    /\ prev.variant = "Connecting"
    /\ op.name = "advance"
    /\ prev.netplay.state.cs = "InProgress"
    /\ prev.netplay.state.start_method.method = "Join"
    /\ netplay_state.variant = "Connected"

\* C7: a Failed value stays Failed, with the same reason, under advance with
\* any inputs, and advance starts or polls nothing; the only operation that
\* leaves Failed is resume(), which yields Disconnected without the reason.
C7_FailedTerminal ==
    (prev.variant = "Failed" /\ op.name # "new") =>
        /\ op.name \in {"advance", "resume"}
        /\ op.name = "advance" =>
            /\ netplay_state = prev
            /\ op.started = <<>>
            /\ op.advanced = <<>>
            /\ op.sync = <<>>
        /\ op.name = "resume" =>
            /\ netplay_state.variant = "Disconnected"
            /\ netplay_state.netplay.state = Disconnected
            /\ op.started = <<>>
        /\ netplay_state.variant # "Failed" => op.name = "resume"

\* A second advance in a row on a Failed value.
C7_Witness ==
    /\ prev.variant = "Failed"
    /\ op.name = "advance"
    /\ op.after = "advance"
    /\ netplay_state.variant = "Failed"

\* C8: advance on Disconnected returns the same Disconnected value for every
\* input, starts no attempt and leaves the shared context unchanged; applying
\* it again gives the same value.
C8_DisconnectedNoOp ==
    /\ (prev.variant = "Disconnected" /\ op.name = "advance") =>
        /\ netplay_state = prev
        /\ netplay_state.variant = "Disconnected"
        /\ op.started = <<>>
        /\ op.advanced = <<>>
        /\ op.sync = <<>>
        /\ next_id \notin OwnedIds(netplay_state)
    /\ netplay_state.variant = "Disconnected" =>
        \A inputs \in Inputs, again \in Inputs :
            LET once == NetplayState_advance(netplay_state, inputs,
                            "pending", "pending", "ok", next_id)
                twice == NetplayState_advance(once.value, again,
                            "pending", "pending", "ok", next_id)
            IN  /\ once.value = netplay_state
                /\ once.started = <<>>
                /\ twice.value = once.value

\* A second advance in a row on a Disconnected value.
C8_Witness ==
    /\ prev.variant = "Disconnected"
    /\ op.name = "advance"
    /\ op.after = "advance"
    /\ netplay_state.variant = "Disconnected"

\* C9: from Connected without a mapping, one advance sets the mapping to the
\* default {0,1} and returns Connected; the synchronization step is not
\* called, the confirmed-snapshot window and everything else are as before,
\* and the result is never Resuming.
C9_DefaultMapping ==
    (prev.variant = "Connected" /\ op.name = "advance"
        /\ prev.netplay.state.netplay_session.input_mapping = None) =>
        /\ netplay_state.variant = "Connected"
        /\ netplay_state.netplay.state.netplay_session.input_mapping =
                Some([ids |-> <<0, 1>>])
        /\ op.sync = <<>>
        /\ op.started = <<>>
        /\ netplay_state.netplay.state.netplay_session.last_confirmed_game_states =
                prev.netplay.state.netplay_session.last_confirmed_game_states
        /\ netplay_state.netplay =
                [prev.netplay EXCEPT !.state.netplay_session.input_mapping =
                    Some([ids |-> <<0, 1>>])]

\* The first advance of a session connected without a mapping.
C9_Witness ==
    /\ prev.variant = "Connected"
    /\ op.name = "advance"
    /\ prev.netplay.state.netplay_session.input_mapping = None
    /\ netplay_state.variant = "Connected"
    /\ netplay_state.netplay.state.netplay_session.input_mapping # None

\* C10: cancel() from Connecting or Resuming and disconnect() from Connected
\* yield Disconnected whatever the attempts or the session have reached; what
\* the payload held is dropped, and nothing dropped is owned by a later value
\* or polled by a later operation (an operation polls only what the value it
\* consumed owned, and steps only the session it owned).
C10_CancelDropsAll ==
    /\ op.name \in {"cancel", "disconnect"} =>
        /\ prev.variant \in {"Connecting", "Resuming", "Connected"}
        /\ netplay_state.variant = "Disconnected"
        /\ netplay_state.netplay.state = Disconnected
        /\ OwnedIds(prev) # {}
        /\ OwnedIds(prev) \subseteq dropped
        /\ op.started = <<>>
    /\ OwnedIds(netplay_state) \cap dropped = {}
    /\ op.name # "new" =>
        /\ {a.id : a \in Range(op.advanced)} \subseteq OwnedIds(prev)
        /\ op.sync # <<>> => prev.variant = "Connected"

\* A cancel of a Connecting value whose attempt had already connected.
C10_Witness ==
    /\ op.name = "cancel"
    /\ prev.variant = "Connecting"
    /\ prev.netplay.state.cs = "Connected"
    /\ netplay_state.variant = "Disconnected"

\* Value of one lower-case hexadecimal digit.
HexValue(c) == (CHOOSE i \in 1..16 : HexDigits[i] = c) - 1

\* C11: join_by_name(room) on Disconnected gives Connecting owning one
\* in-progress attempt started with Join(room), without input mapping, seeded
\* with the initial snapshot of the shared context, whose session id is the
\* room name, then "_", then the content hash in two hex digits per byte.
C11_JoinByName ==
    op.name = "join_by_name" =>
        LET room == op.room_name[1]
            hash == prev.netplay.rom_hash
            attempt == netplay_state.netplay.state
            session_id == attempt.start_method.start_state.session_id
        IN  /\ prev.variant = "Disconnected"
            /\ netplay_state.variant = "Connecting"
            /\ attempt.cs = "InProgress"
            /\ op.started = <<attempt.id>>
            /\ attempt.start_method.method = "Join"
            /\ attempt.start_method.room_name = room
            /\ attempt.start_method.start_state.input_mapping = None
            /\ attempt.start_method.start_state.game_state =
                    prev.netplay.initial_game_state
            /\ Len(session_id) = Len(room) + 1 + 2 * Len(hash)
            /\ SubSeq(session_id, 1, Len(room)) = room
            /\ session_id[Len(room) + 1] = "_"
            /\ \A i \in 1..Len(hash) :
                16 * HexValue(session_id[Len(room) + 2 * i])
                    + HexValue(session_id[Len(room) + 2 * i + 1]) = hash[i]

\* A join by a room name that itself ends in "_", with a hash byte below 16
\* (so the zero padding of the hex form shows), and a snapshot of frame 1.
C11_Witness ==
    /\ op.name = "join_by_name"
    /\ op.room_name = Some(<<"b", "_">>)
    /\ netplay_state.variant = "Connecting"
    /\ netplay_state.netplay.rom_hash[1] = 10
    /\ netplay_state.netplay.initial_game_state = [frame |-> 1]

\* C12: match_with_random() on Disconnected gives Connecting with an
\* in-progress MatchWithRandom attempt whose session id is the hex form of
\* the content hash and nothing else: the same call on a session with any
\* other netplay id (or initial snapshot) and the same hash derives the same
\* session id.
C12_RandomMatchSessionId ==
    op.name = "match_with_random" =>
        LET hash == prev.netplay.rom_hash
            attempt == netplay_state.netplay.state
            session_id == attempt.start_method.start_state.session_id
        IN  /\ prev.variant = "Disconnected"
            /\ netplay_state.variant = "Connecting"
            /\ attempt.cs = "InProgress"
            /\ attempt.start_method.method = "MatchWithRandom"
            /\ attempt.start_method.start_state.input_mapping = None
            /\ Len(session_id) = 2 * Len(hash)
            /\ \A i \in 1..Len(hash) :
                16 * HexValue(session_id[2 * i - 1])
                    + HexValue(session_id[2 * i]) = hash[i]
            /\ \A other \in NetplayIds, snapshot \in InitialStates :
                Disconnected_match_with_random(
                    [prev.netplay EXCEPT !.netplay_id = other,
                                         !.initial_game_state = snapshot],
                    attempt.id).value.netplay.state.start_method.start_state.session_id
                = session_id

\* A random match started by the session with the second netplay id.
C12_Witness ==
    /\ op.name = "match_with_random"
    /\ netplay_state.variant = "Connecting"
    /\ netplay_state.netplay.netplay_id = <<"u", "2">>
    /\ netplay_state.netplay.state.start_method.method = "MatchWithRandom"

\* C13: advance returns a lifecycle value for every lifecycle value, every
\* input and whatever the collaborators report; a failed attempt in
\* Connecting comes back as Failed with its reason, a synchronization fault
\* in Connected comes back as Resuming.
C13_AdvanceAlwaysReturnsValue ==
    LET Variants == {"Disconnected", "Connecting", "Connected", "Resuming", "Failed"}
    IN  /\ op.name = "advance" =>
            /\ netplay_state.variant \in Variants
            /\ (prev.variant = "Connecting" /\ Len(op.advanced) = 1
                    /\ op.advanced[1].cs = "Failed") =>
                /\ netplay_state.variant = "Failed"
                /\ netplay_state.netplay.state.reason = op.advanced[1].reason
            /\ (prev.variant = "Connected" /\ op.sync # <<>> /\ ~op.sync[1].ok) =>
                netplay_state.variant = "Resuming"
        /\ \A inputs \in Inputs, outcome1 \in AttemptOutcomes,
              outcome2 \in AttemptOutcomes, sync_outcome \in SyncOutcomes :
                LET ret == NetplayState_advance(netplay_state, inputs, outcome1,
                                                outcome2, sync_outcome, next_id)
                IN  /\ DOMAIN ret.value = {"variant", "netplay"}
                    /\ ret.value.variant \in Variants

\* An attempt has failed during an advance of a Connecting value.
C13_Witness ==
    /\ op.name = "advance"
    /\ prev.variant = "Connecting"
    /\ Len(op.advanced) = 1
    /\ op.advanced[1].cs = "Failed"
    /\ op.advanced[1].reason = "refused"
    /\ netplay_state.variant = "Failed"

\* The host has cancelled the connection or the resume.
HostIntervened == op.name = "cancel"

\* In a resume cycle opened by a synchronization fault, an advance of the
\* Resuming value has just seen one of the two attempts report connected.
ResumeAttemptReported ==
    /\ op.name = "advance"
    /\ prev.variant = "Resuming"
    /\ op.cycle # None
    /\ op.cycle[1].cause = "advance"
    /\ \E i \in 1..Len(op.advanced) : op.advanced[i].cs = "Connected"

\* C14: in a resume cycle the value is only ever Resuming, Connecting or
\* Connected (never Failed or Disconnected), and once one of the two attempts
\* has reported connected, the advances of the host loop bring the value to
\* Connected again, unless the host cancels.
C14_ResumeRecovers ==
    /\ [](op.cycle # None =>
            netplay_state.variant \in {"Resuming", "Connecting", "Connected"})
    /\ (ResumeAttemptReported ~>
            ((netplay_state.variant = "Connected" /\ op.cycle # None) \/ HostIntervened))

\* Connected again at the end of a resume cycle that a fault had opened.
C14_Witness ==
    /\ netplay_state.variant = "Connected"
    /\ op.name = "advance"
    /\ prev.variant = "Connecting"
    /\ op.cycle # None
    /\ op.cycle[1].cause = "advance"

\* C18: when attempts eventually report and the host keeps advancing, a
\* Connecting value becomes Connected or Failed, unless the host cancels; it
\* does not stay Connecting forever.
C18_ConnectingTerminates ==
    (netplay_state.variant = "Connecting") ~>
        (netplay_state.variant \in {"Connected", "Failed"} \/ HostIntervened)

\* A Connecting value whose attempt stayed in progress over an advance.
C18_Witness ==
    /\ netplay_state.variant = "Connecting"
    /\ op.name = "advance"
    /\ prev.variant = "Connecting"
    /\ netplay_state.netplay.state.cs = "InProgress"

\* C15: advance on a Resuming value never returns Failed (nor Disconnected);
\* once both attempts have failed every advance returns the same Resuming
\* value, and only cancel() takes the value out of Resuming.
C15_ResumingNeverFails ==
    (prev.variant = "Resuming" /\ op.name # "new") =>
        /\ op.name \in {"advance", "cancel"}
        /\ op.name = "advance" =>
            netplay_state.variant \in {"Resuming", "Connecting"}
        /\ (prev.netplay.state.attempt1.cs = "Failed"
                /\ prev.netplay.state.attempt2.cs = "Failed") =>
            /\ op.name = "advance" => netplay_state = prev
            /\ netplay_state.variant # "Resuming" =>
                (op.name = "cancel" /\ netplay_state.variant = "Disconnected")

\* A further advance of a Resuming value whose two attempts had both failed.
C15_Witness ==
    /\ prev.variant = "Resuming"
    /\ op.name = "advance"
    /\ prev.netplay.state.attempt1.cs = "Failed"
    /\ prev.netplay.state.attempt2.cs = "Failed"
    /\ netplay_state.variant = "Resuming"

\* C16: every advance of a Resuming value polls each of the two attempts
\* exactly once, attempt1 first and attempt2 second, also when attempt1
\* reports connected; the value returned is chosen from the attempts as they
\* are after both polls.
C16_BothAttemptsPolled ==
    (prev.variant = "Resuming" /\ op.name = "advance") =>
        LET before == prev.netplay.state
            after == netplay_state.netplay.state
        IN  /\ Len(op.advanced) = 2
            /\ op.advanced[1].id = before.attempt1.id
            /\ op.advanced[2].id = before.attempt2.id
            /\ op.advanced[1].id # op.advanced[2].id
            /\ (netplay_state.variant = "Connecting") =
                (op.advanced[1].cs = "Connected" \/ op.advanced[2].cs = "Connected")
            /\ netplay_state.variant = "Connecting" =>
                after \in {op.advanced[1], op.advanced[2]}
            /\ netplay_state.variant = "Resuming" =>
                after = [attempt1 |-> op.advanced[1], attempt2 |-> op.advanced[2]]

\* In one step attempt1 went from in progress to connected and attempt2,
\* polled after it, went from in progress to failed.
C16_Witness ==
    /\ prev.variant = "Resuming"
    /\ op.name = "advance"
    /\ Len(op.advanced) = 2
    /\ prev.netplay.state.attempt1.cs = "InProgress"
    /\ prev.netplay.state.attempt2.cs = "InProgress"
    /\ op.advanced[1].cs = "Connected"
    /\ op.advanced[2].cs = "Failed"

\* C17: new() returns Disconnected; a supplied netplay id becomes the value's
\* netplay id, a missing one is generated; either way the caller's slot holds
\* the value's netplay id afterwards, so the next new() with that slot has
\* the same netplay id.
C17_NewNetplayId ==
    /\ slot = Some(netplay_state.netplay.netplay_id)
    /\ op.name = "new" =>
        /\ netplay_state.variant = "Disconnected"
        /\ netplay_state.netplay.state = Disconnected
        /\ op.netplay_id # None =>
            netplay_state.netplay.netplay_id = op.netplay_id[1]
        /\ op.netplay_id = None =>
            netplay_state.netplay.netplay_id \in NetplayIds
        /\ op.after # "none" =>
            /\ op.netplay_id # None
            /\ netplay_state.netplay.netplay_id = prev.netplay.netplay_id

\* A second new() with the slot the first one was given.
C17_Witness ==
    /\ op.name = "new"
    /\ op.after # "none"
    /\ netplay_state.variant = "Disconnected"
    /\ netplay_state.netplay.rom_hash # prev.netplay.rom_hash

\* C19: through a resume cycle without cancel the session id is kept: the
\* two attempts of Resuming, the attempt carried into Connecting and the
\* Connected value at the end all have the session id of the Connected value
\* the cycle started from.
C19_SessionIdKept ==
    op.cycle # None =>
        LET session_id == op.cycle[1].session_id
            state == netplay_state.netplay.state
            sid(attempt) ==
                IF attempt.cs = "InProgress"
                THEN Some(attempt.start_method.start_state.session_id)
                ELSE IF attempt.cs = "Connected"
                THEN Some(attempt.connected.start_method.start_state.session_id)
                ELSE None
        IN  /\ netplay_state.variant = "Resuming" =>
                /\ sid(state.attempt1) \in {None, Some(session_id)}
                /\ sid(state.attempt2) \in {None, Some(session_id)}
            /\ netplay_state.variant = "Connecting" =>
                sid(state) = Some(session_id)
            /\ netplay_state.variant = "Connected" =>
                state.session_id = session_id

\* Connected again, after a resume cycle of a session that was joined by
\* room name, with the snapshot of the older window entry.
C19_Witness ==
    /\ netplay_state.variant = "Connected"
    /\ op.cycle # None
    /\ op.cycle[1].session_id # LowerHex(netplay_state.netplay.rom_hash)
    /\ prev.variant = "Connecting"
    /\ prev.netplay.state.connected.start_method.start_state.game_state.frame <
        MaxFrame

\* C20: advance changes the state only from Connecting to Connected or
\* Failed, from Connected to Resuming and from Resuming to Connecting.
\* Connected and Failed are entered only from Connecting, Resuming only from
\* Connected; Disconnected is entered only by cancel, disconnect and resume
\* from Failed, and left only by join_by_name, match_with_random or join.
C20_Transitions ==
    (op.name # "new" /\ netplay_state.variant # prev.variant) =>
        /\ op.name = "advance" =>
            <<prev.variant, netplay_state.variant>> \in
                {<<"Connecting", "Connected">>, <<"Connecting", "Failed">>,
                 <<"Connected", "Resuming">>, <<"Resuming", "Connecting">>}
        /\ netplay_state.variant = "Connected" => prev.variant = "Connecting"
        /\ netplay_state.variant = "Failed" => prev.variant = "Connecting"
        /\ netplay_state.variant = "Resuming" => prev.variant = "Connected"
        /\ netplay_state.variant = "Disconnected" =>
            \/ op.name = "cancel" /\ prev.variant \in {"Connecting", "Resuming"}
            \/ op.name = "disconnect" /\ prev.variant = "Connected"
            \/ op.name = "resume" /\ prev.variant = "Failed"
        /\ prev.variant = "Disconnected" =>
            /\ op.name \in {"join_by_name", "match_with_random", "join"}
            /\ netplay_state.variant = "Connecting"

\* Disconnected has been left by join() with a start method of the host.
C20_Witness ==
    /\ op.name = "join"
    /\ prev.variant = "Disconnected"
    /\ netplay_state.variant = "Connecting"
    /\ netplay_state.netplay.state.start_method.method = "Resume"

====
